---- MODULE Spec2Model ----
(***************************************************************************)
(* Model of the vid2world video-composition scripts:                       *)
(*   static/compare/1.py   main / process_directory /                      *)
(*                         create_comparison_video / center_crop           *)
(*   combine_videos.py     main / create_video_grid_with_empty_slots /     *)
(*                         process_frame / center_crop                     *)
(*   static/csgo/aggregate_videos.py, static/rt1/aggregate_videos.py       *)
(*                         process_directory / combine_all_videos          *)
(*   static/move/1.py      create_video_grid                               *)
(* One script runs per behaviour (variable script).  A video file is       *)
(* modelled by its number of decodable frames and its frame size; a pixel  *)
(* buffer by its width, height, and where its content comes from.          *)
(***************************************************************************)
EXTENDS Integers, Sequences, FiniteSets, TLC

VARIABLES
    script,        \* which script runs: "compare", "grid", "combine", "csgo", "rt1",
                   \* "move" or "crop"
    pc,            \* position of the script
    exc,           \* exception raised and not handled ("none" when there is none)
    nSubdirs,      \* compare/1.py main: number of subdirectories found
    attempted,     \* compare/1.py main: subdirectories handed to process_directory
    listdir,       \* os.listdir order of the directory being processed
    video_files,   \* compare/1.py: the list of video paths of the directory
    video_paths,   \* combine_videos.py: the path list ("" is <<>>)
    grid_size,     \* combine_videos.py: <<rows, cols>>
    srcLen,        \* decodable frame count of each entry of the path list
    frameSize,     \* <<width, height>> of the frames the sources decode to
    total_frames,  \* frame count the loop runs for
    frame_idx,     \* loop index
    caps,          \* one capture per entry: [opened, released, pos]
    out,           \* the writer: [opened, released, w, h, written]
    tile,          \* combine_videos.py: <<width, height>> of one grid tile
    crop,          \* result of the last center_crop applied by the "crop" script
    csgo_videos,       \* combine_videos.py main: the CS:GO paths found
    appendix_videos,   \* combine_videos.py main: the appendix paths found
    walk,          \* aggregate_videos.py: the directories in the order os.walk gives
    video_pairs,   \* aggregate_videos.py: the (gt, pred) pairs, by directory
    layout,        \* aggregate_videos.py: canvas and tile rectangles
    clips,         \* move/1.py: the keys of the clips loaded
    log            \* move/1.py, aggregate_videos.py: the messages printed

mainVars == <<csgo_videos, appendix_videos>>
aggVars == <<walk, video_pairs, layout>>
moveVars == <<clips, log>>

vars == <<script, pc, exc, nSubdirs, attempted, listdir, video_files, video_paths,
          grid_size, srcLen, frameSize, total_frames, frame_idx, caps, out, tile, crop,
          mainVars, aggVars, moveVars>>

----------------------------------------------------------------------------
(* Bounds of the model *)

MaxDirs == 2
MaxFiles == 4
MaxLen == 3
MaxPaths == 4
MaxRows == 2
MaxCols == 2
DimDelta == 2
MaxCsgo == 5
MaxAppendix == 9
MaxWalk == 2
MaxHeight == 128

\* decodable frame counts a source file may have
Lens == {0, 1, MaxLen - 1, MaxLen}

\* frame sizes of the sources of a composing run
RunSizes == {<<640, 480>>, <<400, 320>>}

----------------------------------------------------------------------------
(* Python and numpy primitives *)

Min(a, b) == IF a < b THEN a ELSE b

\* index normalisation of a Python slice bound on an axis of length n
SliceIndex(n, i) ==
    IF i < 0 THEN (IF i + n < 0 THEN 0 ELSE i + n)
    ELSE (IF i > n THEN n ELSE i)

\* a[start:stop] on an axis of length n: the half-open range it selects
SliceRange(lo, hi) == [lo |-> lo, hi |-> IF hi > lo THEN hi ELSE lo]

Slice(n, start, stop) == SliceRange(SliceIndex(n, start), SliceIndex(n, stop))

RECURSIVE SumW(_)
SumW(bufs) == IF bufs = <<>> THEN 0 ELSE Head(bufs).w + SumW(Tail(bufs))

RECURSIVE SumH(_)
SumH(bufs) == IF bufs = <<>> THEN 0 ELSE Head(bufs).h + SumH(Tail(bufs))

\* np.hstack: heights must agree, widths add
Hstack(bufs) ==
    [ok |-> bufs # <<>> /\ \A i \in 1..Len(bufs) : bufs[i].h = bufs[1].h,
     w  |-> SumW(bufs),
     h  |-> IF bufs = <<>> THEN 0 ELSE bufs[1].h]

\* np.vstack: widths must agree, heights add
Vstack(bufs) ==
    [ok |-> bufs # <<>> /\ \A i \in 1..Len(bufs) : bufs[i].w = bufs[1].w,
     w  |-> IF bufs = <<>> THEN 0 ELSE bufs[1].w,
     h  |-> SumH(bufs)]

\* cv2.resize: raises on an empty source, else gives exactly the requested size
Resize(w, h, tw, th) == [ok |-> w > 0 /\ h > 0, w |-> tw, h |-> th]

\* cap.read() of a capture positioned at pos on a file of L decodable frames
Read(L, pos) ==
    IF pos >= 0 /\ pos < L THEN [ret |-> TRUE, idx |-> pos]
    ELSE [ret |-> FALSE, idx |-> -1]

\* a pixel buffer: kind is "content", "blank", "pad" or "spacing"
Buf(kind, src, idx, w, h) == [kind |-> kind, src |-> src, idx |-> idx, w |-> w, h |-> h]

\* sorted(s): stable; less[i][j] tells whether s[i] orders strictly before
\* s[j].  The element at place p is the one with p - 1 elements before it.
StableSort(s, less) ==
    [p \in 1..Len(s) |->
        s[CHOOSE i \in 1..Len(s) :
            Cardinality({j \in 1..Len(s) :
                less[j][i] \/ (~less[i][j] /\ j < i)}) + 1 = p]]

NoCrop == [fn |-> "none", ok |-> FALSE, w |-> 0, h |-> 0, tw |-> 0, th |-> 0,
           x0 |-> 0, x1 |-> 0, y0 |-> 0, y1 |-> 0, outW |-> 0, outH |-> 0]

NoWriter == [opened |-> FALSE, released |-> FALSE, w |-> 0, h |-> 0, written |-> <<>>]

----------------------------------------------------------------------------
(* static/compare/1.py *)

\* File names are sequences of pieces; a piece stands for the characters it
\* spells.  CodeOf gives the place of a piece in the order of strings (ASCII).
FileNames ==
    { <<"a", "_gt", ".mp4">>, <<"a", "_ours", ".mp4">>, <<"a", "_fast", ".mp4">>,
      <<"a", "_HQ", ".MP4">>, <<"a", "_gt", ".avi">>, <<"notes", ".txt">> }

\* the pieces in the order of the strings they spell
PieceOrder ==
    << ".MP4", ".avi", ".mp4", ".txt", "_HQ", "_fast", "_gt", "_hq", "_ours", "a",
       "appendix", "csgo", "d01", "d02", "d03", "d04", "d05", "d06", "d07", "d08",
       "d09", "d10", "d11", "d12", "dir", "hdf5_dm_july2021_", "notes",
       "pred_video.mp4", "static" >>

CodeOf(piece) ==
    IF \E k \in 1..Len(PieceOrder) : PieceOrder[k] = piece
    THEN CHOOSE k \in 1..Len(PieceOrder) : PieceOrder[k] = piece
    ELSE 0

\* str.lower()
Lower(piece) ==
    CASE piece = "_HQ"  -> "_hq"
      [] piece = ".MP4" -> ".mp4"
      [] OTHER          -> piece

LowerName(name) == [i \in 1..Len(name) |-> Lower(name[i])]

\* string comparison a < b
RECURSIVE StrLess(_, _)
StrLess(a, b) ==
    IF b = <<>> THEN FALSE
    ELSE IF a = <<>> THEN TRUE
    ELSE IF CodeOf(Head(a)) # CodeOf(Head(b)) THEN CodeOf(Head(a)) < CodeOf(Head(b))
    ELSE StrLess(Tail(a), Tail(b))

\* tag + ".mp4" in filename
Contains(name, tag) ==
    \E i \in 1..(Len(name) - 1) : name[i] = tag /\ name[i + 1] = ".mp4"

video_extensions == {".mp4", ".avi", ".mov", ".mkv"}

\* os.path.join(directory, file) and os.path.basename(path)
PathJoin(file) == <<"dir">> \o file
Basename(path) == Tail(path)

\* line 16: sorted(video_files)
SortByPath(paths) ==
    StableSort(paths, [i \in 1..Len(paths) |->
                          [j \in 1..Len(paths) |-> StrLess(paths[i], paths[j])]])

\* get_video_files: keep the video files of the listing, sorted by path
get_video_files(listing) ==
    LET keep == SelectSeq(listing,
                    LAMBDA f : Lower(f[Len(f)]) \in video_extensions)
        paths == [i \in 1..Len(keep) |-> PathJoin(keep[i])]
    IN  SortByPath(paths)

get_video_order_hq_first(filename) ==
    LET f == LowerName(filename)
    IN  IF Contains(f, "_gt") THEN 0
        ELSE IF Contains(f, "_ours") THEN 1
        ELSE IF Contains(f, "_hq") THEN 2
        ELSE IF Contains(f, "_fast") THEN 3
        ELSE 4

get_video_order(filename) ==
    LET f == LowerName(filename)
    IN  IF Contains(f, "_gt") THEN 0
        ELSE IF Contains(f, "_ours") THEN 1
        ELSE IF Contains(f, "_fast") THEN 2
        ELSE IF Contains(f, "_hq") THEN 3
        ELSE 4

OrderLess(a, b) == get_video_order(Basename(a)) < get_video_order(Basename(b))

\* line 104: sorted(video_files, key=get_video_order(basename))
SortByOrder(files) ==
    StableSort(files, [i \in 1..Len(files) |->
                          [j \in 1..Len(files) |-> OrderLess(files[i], files[j])]])

target_width == 512
target_height == 275
spacing == 30
label_height == 50

\* the crop origin of center_crop on one axis
CropOriginUncentred(size, cropSize) == size - cropSize

CropOrigin(size, cropSize) == (size - cropSize) \div 2

\* the record of one crop: the source size, the crop target, the region
\* [x0, x1) x [y0, y1) taken from the source, and the resize of that region
CropResult(fn, w, h, tw, th, xs, ys, r) ==
    [fn |-> fn, ok |-> r.ok, w |-> w, h |-> h, tw |-> tw, th |-> th,
     x0 |-> xs.lo, x1 |-> xs.hi, y0 |-> ys.lo, y1 |-> ys.hi,
     outW |-> r.w, outH |-> r.h]

\* the region xs x ys of the frame, resized to rw x rh
ResizeRegion(fn, w, h, tw, th, xs, ys, rw, rh) ==
    CropResult(fn, w, h, tw, th, xs, ys,
               Resize(xs.hi - xs.lo, ys.hi - ys.lo, rw, rh))

\* compare/1.py lines 87-95: crop coordinates, crop, resize to the target
CropAndResize(width, height, crop_width, crop_height, tw, th) ==
    ResizeRegion("compare", width, height, tw, th,
                 Slice(width, CropOrigin(width, crop_width),
                       CropOrigin(width, crop_width) + crop_width),
                 Slice(height, CropOrigin(height, crop_height),
                       CropOrigin(height, crop_height) + crop_height),
                 tw, th)

\* center_crop(frame, target_width, target_height) of compare/1.py on a frame
\* of width x height
center_crop(width, height, tw, th) ==
    CropAndResize(width, height,
                  Min(width, (height * tw) \div th),
                  Min(height, (width * th) \div tw),
                  tw, th)

\* lines 107-110: the frame count of the first video of the sorted list
TargetFramesOfLongest(lens) ==
    CHOOSE m \in {lens[i] : i \in 1..Len(lens)} : \A i \in 1..Len(lens) : lens[i] <= m

TargetFrames(lens) == lens[1]

\* lines 123-124: the size the writer is opened with
total_width(n) == (target_width * n) + (spacing * (n - 1))
total_height == target_height + label_height * 2

\* lines 137-139 and 153-154: the frame a source gives at frame_idx; the read
\* at frame_idx, and when that fails the read at frame_idx - 1
CompareRead(L, i) ==
    LET r1 == Read(L, i)
    IN  IF r1.ret THEN r1 ELSE Read(L, i - 1)

\* line 149 (and 163): the tile is the stack of label band, frame, margin
StackedTile(s, idx, c, st) ==
    [ok |-> c.ok /\ st.ok, buf |-> Buf("content", s, idx, st.w, st.h)]

\* lines 142-149 (and 156-163): the white bands above and below the frame c
WithLabelBands(s, idx, c) ==
    StackedTile(s, idx, c,
                Vstack(<<Buf("label", s, idx, target_width, label_height),
                         Buf("content", s, idx, c.outW, c.outH),
                         Buf("label", s, idx, target_width, label_height)>>))

\* lines 140-150 (and the same lines 155-164): crop, label bands, vstack
LabelledTile(s, idx, size) ==
    WithLabelBands(s, idx,
                   center_crop(size[1], size[2], target_width, target_height))

\* the exception raised for the frame r read from one source ("none" when
\* the source gives a tile)
TileError(r, size) ==
    IF ~r.ret THEN "AttributeError"   \* frame is None: frame.shape
    ELSE IF ~LabelledTile(1, r.idx, size).ok THEN "cv2.error"
    ELSE "none"

CompareTileError(L, i, size) == TileError(CompareRead(L, i), size)

\* line 167: the white strips between the tiles
SpacingFramesOnePerTile(frames) ==
    [k \in 1..Len(frames) |-> Buf("spacing", 0, -1, spacing, total_height)]

SpacingFrames(frames) ==
    [k \in 1..(Len(frames) - 1) |-> Buf("spacing", 0, -1, spacing, total_height)]

\* lines 170-174: frames[0], spacing[0], frames[1], ...
Interleave(frames, spacing_frames) ==
    [p \in 1..(Len(frames) + Min(Len(frames), Len(spacing_frames))) |->
        IF p <= 2 * Min(Len(frames), Len(spacing_frames))
        THEN (IF p % 2 = 1 THEN frames[(p + 1) \div 2] ELSE spacing_frames[p \div 2])
        ELSE frames[p - Min(Len(frames), Len(spacing_frames))]]

WithSpacing(frames) == Interleave(frames, SpacingFrames(frames))

\* lines 177-178: the frame handed to the writer
Stacked(tiles, st) == [ok |-> st.ok, w |-> st.w, h |-> st.h, tiles |-> tiles]

Composite(final_frames) == Stacked(final_frames, Hstack(final_frames))

\* lines 135-177: the composite frame of frame index i
Comparison(lens, i, size) ==
    Composite(WithSpacing([s \in 1..Len(lens) |->
                  LabelledTile(s, CompareRead(lens[s], i).idx, size).buf]))

\* the capture after cap.set(p); cap.read() on a file of L frames
AfterRead(cap, L, p) == [cap EXCEPT !.pos = IF Read(L, p).ret THEN p + 1 ELSE p]

Listings ==
    { l \in UNION { [1..k -> FileNames] : k \in 0..MaxFiles } :
        \A i, j \in 1..Len(l) : i # j => l[i] # l[j] }

ResetDirectory ==
    /\ listdir' = <<>>
    /\ video_files' = <<>>
    /\ srcLen' = <<>>
    /\ frameSize' = <<0, 0>>
    /\ total_frames' = 0
    /\ frame_idx' = 0
    /\ caps' = <<>>
    /\ out' = NoWriter

\* main, lines 204-213: list the subdirectories
Main ==
    /\ script = "compare" /\ pc = "main"
    /\ pc' = IF nSubdirs = 0 THEN "done" ELSE "process_directory"
    /\ UNCHANGED <<mainVars, aggVars, moveVars>>
    /\ UNCHANGED <<script, exc, nSubdirs, attempted, listdir, video_files, video_paths,
                   grid_size, srcLen, frameSize, total_frames, frame_idx, caps, out,
                   tile, crop>>

\* process_directory, lines 186-200: discover the videos of the next subdirectory
ProcessDirectory ==
    /\ script = "compare" /\ pc = "process_directory"
    /\ \E listing \in Listings :
          /\ listdir' = listing
          /\ video_files' = get_video_files(listing)
    /\ attempted' = attempted + 1
    /\ pc' = IF video_files' = <<>> THEN "returned" ELSE "create_comparison_video"
    /\ UNCHANGED <<mainVars, aggVars, moveVars>>
    /\ UNCHANGED <<script, exc, nSubdirs, video_paths, grid_size, srcLen, frameSize,
                   total_frames, frame_idx, caps, out, tile, crop>>

\* create_comparison_video, lines 99-104: order the videos
CompareSort ==
    /\ script = "compare" /\ pc = "create_comparison_video"
    /\ video_files # <<>>
    /\ video_files' = SortByOrder(video_files)
    /\ pc' = "sorted"
    /\ UNCHANGED <<mainVars, aggVars, moveVars>>
    /\ UNCHANGED <<script, exc, nSubdirs, attempted, listdir, video_paths, grid_size,
                   srcLen, frameSize, total_frames, frame_idx, caps, out, tile, crop>>

\* create_comparison_video, lines 106-131: frame count of the first video,
\* writer and captures opened.  The files' frame counts and frame size are
\* what is on disk.
CompareOpen ==
    /\ script = "compare" /\ pc = "sorted"
    /\ \E lens \in [1..Len(video_files) -> Lens], size \in RunSizes :
          /\ srcLen' = lens
          /\ frameSize' = size
          /\ total_frames' = TargetFrames(lens)
    /\ out' = [opened |-> TRUE, released |-> FALSE,
               w |-> total_width(Len(video_files)), h |-> total_height,
               written |-> <<>>]
    /\ caps' = [s \in 1..Len(video_files) |->
                   [opened |-> TRUE, released |-> FALSE, pos |-> 0]]
    /\ frame_idx' = 0
    /\ listdir' = <<>>
    /\ pc' = "loop"
    /\ UNCHANGED <<mainVars, aggVars, moveVars>>
    /\ UNCHANGED <<script, exc, nSubdirs, attempted, video_files, video_paths,
                   grid_size, tile, crop>>

\* the capture of a source of L frames after the reads of lines 137-138 and
\* 153-154 at frame index i
AfterReads(cap, L, i) ==
    AfterRead(cap, L, IF Read(L, i).ret THEN i ELSE i - 1)

\* an exception leaves the loop at source b: lines 180-184 run next
CompareRaise(err, b) ==
    /\ exc' = err[b]
    /\ caps' = [s \in 1..Len(caps) |->
                  IF s < b THEN AfterReads(caps[s], srcLen[s], frame_idx)
                  ELSE caps[s]]
    /\ pc' = "finally"
    /\ UNCHANGED <<out, frame_idx>>

\* line 178: out.write(comparison)
CompareRewrite(cmp) ==
    /\ caps' = [s \in 1..Len(caps) |-> AfterReads(caps[s], srcLen[s], frame_idx)]
    /\ out' = [out EXCEPT !.written =
                  <<[w |-> cmp.w, h |-> cmp.h, tiles |-> cmp.tiles]>>]
    /\ frame_idx' = frame_idx + 1
    /\ UNCHANGED <<exc, pc>>

CompareWrite(cmp) ==
    /\ caps' = [s \in 1..Len(caps) |-> AfterReads(caps[s], srcLen[s], frame_idx)]
    /\ IF cmp.ok
       THEN /\ out' = [out EXCEPT !.written =
                          Append(@, [w |-> cmp.w, h |-> cmp.h, tiles |-> cmp.tiles])]
            /\ frame_idx' = frame_idx + 1
            /\ UNCHANGED <<exc, pc>>
       ELSE /\ exc' = "ValueError"
            /\ pc' = "finally"
            /\ UNCHANGED <<out, frame_idx>>

CompareStep(err, bad) ==
    IF bad # {}
    THEN CompareRaise(err, CHOOSE s \in bad : \A t \in bad : s <= t)
    ELSE CompareWrite(Comparison(srcLen, frame_idx, frameSize))

CompareErrors(err) == CompareStep(err, {s \in DOMAIN err : err[s] # "none"})

\* one iteration of the loop of lines 134-178
CompareFrame ==
    /\ script = "compare" /\ pc = "loop" /\ frame_idx < total_frames
    /\ CompareErrors([s \in 1..Len(video_files) |->
                         CompareTileError(srcLen[s], frame_idx, frameSize)])
    /\ UNCHANGED <<mainVars, aggVars, moveVars>>
    /\ UNCHANGED <<script, nSubdirs, attempted, listdir, video_files, video_paths,
                   grid_size, srcLen, frameSize, total_frames, tile, crop>>

\* the loop of line 134 ends
CompareLoopEnd ==
    /\ script = "compare" /\ pc = "loop" /\ frame_idx >= total_frames
    /\ pc' = "finally"
    /\ UNCHANGED <<mainVars, aggVars, moveVars>>
    /\ UNCHANGED <<script, exc, nSubdirs, attempted, listdir, video_files, video_paths,
                   grid_size, srcLen, frameSize, total_frames, frame_idx, caps, out,
                   tile, crop>>

\* lines 180-184, then the return to process_directory (line 202) or the
\* exception leaving process_directory and main, which have no handler
CompareFinally ==
    /\ script = "compare" /\ pc = "finally"
    /\ caps' = [s \in 1..Len(caps) |-> [caps[s] EXCEPT !.released = TRUE]]
    /\ out' = [out EXCEPT !.released = TRUE]
    /\ pc' = IF exc = "none" THEN "returned" ELSE "crashed"
    /\ UNCHANGED <<mainVars, aggVars, moveVars>>
    /\ UNCHANGED <<script, exc, nSubdirs, attempted, listdir, video_files, video_paths,
                   grid_size, srcLen, frameSize, total_frames, frame_idx, tile, crop>>

\* main, lines 216-218: the next subdirectory, or the end of the script
NextSubdir ==
    /\ script = "compare" /\ pc = "returned"
    /\ ResetDirectory
    /\ pc' = IF attempted < nSubdirs THEN "process_directory" ELSE "done"
    /\ UNCHANGED <<mainVars, aggVars, moveVars>>
    /\ UNCHANGED <<script, exc, nSubdirs, attempted, video_paths, grid_size, tile, crop>>

----------------------------------------------------------------------------
(* combine_videos.py *)

\* Paths are sequences of path components; the empty string is <<>>.
\* The function runs on a list handed to it ("grid") or called by main
\* ("combine").
GridScripts == {"grid", "combine"}

CsgoPath == <<"static", "csgo", "pred_video.mp4">>
AppendixPath == <<"static", "appendix", "pred_video.mp4">>
RealPaths == {CsgoPath, AppendixPath}

PathLists == UNION { [1..k -> RealPaths \cup {<<>>}] : k \in 0..MaxPaths }

GridShapes == (1..MaxRows) \X (1..MaxCols)

\* "csgo" in path
InPath(word, path) == \E i \in 1..Len(path) : path[i] = word

\* the files of one family (CS:GO, appendix) have the same frame count
FamilyOf(path) == IF InPath("csgo", path) THEN CsgoPath ELSE AppendixPath

csgo_crop_height == 275
csgo_crop_width == 512
rt1_crop_height == 320
rt1_crop_width == 400
frame_height == 320

\* center_crop(frame, target_height, target_width) of combine_videos.py on a
\* frame of w x h: the region frame[start_y:start_y+th, start_x:start_x+tw]
CropSlices(start_x, start_y, w, h, th, tw) ==
    [xs |-> Slice(w, start_x, start_x + tw), ys |-> Slice(h, start_y, start_y + th)]

combine_center_crop(w, h, th, tw) ==
    CropSlices((w - tw) \div 2, (h - th) \div 2, w, h, th, tw)

\* process_frame, lines 23-27: the cropped region c resized to 3:4
ResizeCropped(w, h, th, tw, c) ==
    ResizeRegion("combine", w, h, tw, th, c.xs, c.ys,
                 (frame_height * 4) \div 3, frame_height)

ProcessCrop(w, h, th, tw) ==
    ResizeCropped(w, h, th, tw, combine_center_crop(w, h, th, tw))

\* process_frame(frame, is_csgo) on a frame of w x h
process_frame(w, h, is_csgo) ==
    IF is_csgo THEN ProcessCrop(w, h, csgo_crop_height, csgo_crop_width)
    ELSE ProcessCrop(w, h, rt1_crop_height, rt1_crop_width)

\* line 49: the first non-empty path (0 when there is none: StopIteration)
FirstValid(paths) ==
    IF \A i \in 1..Len(paths) : paths[i] = <<>> THEN 0
    ELSE CHOOSE i \in 1..Len(paths) :
             /\ paths[i] # <<>>
             /\ \A j \in 1..(i - 1) : paths[j] = <<>>

\* lines 84-86: is the slot of this path an empty slot
IsEmptySlot(path) == path = <<>>

\* lines 88-92: cap.read(), and on failure rewind to frame 0 and read again
Reread(r2) == [ret |-> r2.ret, idx |-> r2.idx, pos |-> IF r2.ret THEN 1 ELSE 0]

GridReadHoldsLast(L, pos) ==
    IF Read(L, pos).ret THEN [ret |-> TRUE, idx |-> pos, pos |-> pos + 1]
    ELSE [ret |-> L >= 1, idx |-> L - 1, pos |-> pos]

GridRead(L, pos) ==
    IF Read(L, pos).ret THEN [ret |-> TRUE, idx |-> pos, pos |-> pos + 1]
    ELSE Reread(Read(L, 0))

\* lines 93-95: the processed frame pf of the read r is the frame of slot i
ContentSlot(i, r, pf) ==
    [err |-> IF ~r.ret THEN "AttributeError"
             ELSE IF ~pf.ok THEN "cv2.error" ELSE "none",
     pos |-> r.pos,
     buf |-> Buf("content", i, r.idx, pf.outW, pf.outH)]

\* lines 83-95: the frame of slot i ("none" error when it gives one)
GridSlot(i) ==
    IF IsEmptySlot(video_paths[i])
    THEN [err |-> "none", pos |-> 0,
          buf |-> Buf("blank", i, -1, tile[1], tile[2])]
    ELSE ContentSlot(i, GridRead(srcLen[i], caps[i].pos),
                     process_frame(frameSize[1], frameSize[2],
                                   InPath("csgo", video_paths[i])))

\* lines 102-103: the row padded to cols frames
PadRowInFront(row_frames, cols) ==
    [k \in 1..(cols - Len(row_frames)) |-> Buf("pad", 0, -1, tile[1], tile[2])]
        \o row_frames

PadRow(row_frames, cols) ==
    row_frames \o [k \in 1..(cols - Len(row_frames)) |->
                      Buf("pad", 0, -1, tile[1], tile[2])]

\* lines 99-105: the row that starts at frames[i] (0-based i)
RowFrames(frames, i, cols) ==
    PadRow(SubSeq(frames, i + 1, Min(i + cols, Len(frames))), cols)

\* range(0, len(frames), cols): the number of rows built from the frames
RowCount(n, cols) == (n + cols - 1) \div cols

RECURSIVE Flatten(_)
Flatten(rows) == IF rows = <<>> THEN <<>> ELSE Head(rows) \o Flatten(Tail(rows))

\* line 112: np.vstack(rows) of the stacked rows and the missing rows
StackRows(built, stacked, missing) ==
    Stacked(Flatten(built) \o missing,
            [ok |-> Vstack(stacked \o missing).ok
                      /\ \A r \in 1..Len(stacked) : stacked[r].ok,
             w  |-> Vstack(stacked \o missing).w,
             h  |-> Vstack(stacked \o missing).h])

\* lines 104-109: each row hstacked, missing rows made of zeros
GridRows(built, rows, cols) ==
    StackRows(built,
              [r \in 1..Len(built) |-> Hstack(built[r])],
              [r \in 1..(rows - Len(built)) |->
                  Buf("pad", 0, -1, tile[1] * cols, tile[2])])

\* lines 97-112: the grid of one frame index
Grid(frames, rows, cols) ==
    GridRows([r \in 1..RowCount(Len(frames), cols) |->
                 RowFrames(frames, (r - 1) * cols, cols)],
             rows, cols)

\* lines 62-79: writer and captures opened
GridOpen(lens, pf) ==
    /\ total_frames' = lens[FirstValid(video_paths)]
    /\ tile' = <<pf.outW, pf.outH>>
    /\ out' = [opened |-> TRUE, released |-> FALSE,
               w |-> pf.outW * grid_size[2], h |-> pf.outH * grid_size[1],
               written |-> <<>>]
    /\ caps' = [i \in 1..Len(video_paths) |->
                  [opened |-> video_paths[i] # <<>>, released |-> FALSE, pos |-> 0]]
    /\ pc' = "grid_loop"
    /\ UNCHANGED exc

\* an exception of lines 48-60 leaves the function: nothing is open
GridSetupRaise(e, frames) ==
    /\ exc' = e
    /\ pc' = "crashed"
    /\ total_frames' = frames
    /\ UNCHANGED <<tile, out, caps>>

\* lines 48-60 on files of the frame counts lens and frame size size
GridProbe(lens, size, first) ==
    /\ srcLen' = lens
    /\ frameSize' = size
    /\ IF first = 0
       THEN GridSetupRaise("StopIteration", 0)
       ELSE IF ~Read(lens[first], 0).ret
       THEN GridSetupRaise("AttributeError", lens[first])
       ELSE IF ~process_frame(size[1], size[2],
                              InPath("csgo", video_paths[first])).ok
       THEN GridSetupRaise("cv2.error", lens[first])
       ELSE GridOpen(lens, process_frame(size[1], size[2],
                                         InPath("csgo", video_paths[first])))

\* create_video_grid_with_empty_slots, lines 48-79: frame count and tile size
\* from the first non-empty path, writer and captures opened
GridSetup ==
    /\ script \in GridScripts /\ pc = "grid_setup"
    /\ \E lenOf \in [RealPaths -> Lens], size \in RunSizes :
          GridProbe([i \in 1..Len(video_paths) |->
                        IF video_paths[i] = <<>> THEN 0
                        ELSE lenOf[FamilyOf(video_paths[i])]],
                    size, FirstValid(video_paths))
    /\ UNCHANGED <<mainVars, aggVars, moveVars>>
    /\ UNCHANGED <<script, nSubdirs, attempted, listdir, video_files, video_paths,
                   grid_size, frame_idx, crop>>

\* an exception leaves the function at slot b: nothing is released
GridRaise(slot, b) ==
    /\ exc' = slot[b].err
    /\ caps' = [i \in 1..Len(caps) |->
                  IF i <= b THEN [caps[i] EXCEPT !.pos = slot[i].pos] ELSE caps[i]]
    /\ pc' = "crashed"
    /\ UNCHANGED <<out, frame_idx>>

\* line 115: out.write(grid)
GridWrite(slot, grid) ==
    /\ caps' = [i \in 1..Len(caps) |-> [caps[i] EXCEPT !.pos = slot[i].pos]]
    /\ IF grid.ok
       THEN /\ out' = [out EXCEPT !.written =
                          Append(@, [w |-> grid.w, h |-> grid.h, tiles |-> grid.tiles])]
            /\ frame_idx' = frame_idx + 1
            /\ UNCHANGED <<exc, pc>>
       ELSE /\ exc' = "ValueError"
            /\ pc' = "crashed"
            /\ UNCHANGED <<out, frame_idx>>

GridStep(slot, bad) ==
    IF bad # {}
    THEN GridRaise(slot, CHOOSE i \in bad : \A j \in bad : i <= j)
    ELSE GridWrite(slot, Grid([i \in 1..Len(slot) |-> slot[i].buf],
                              grid_size[1], grid_size[2]))

GridSlots(slot) == GridStep(slot, {i \in DOMAIN slot : slot[i].err # "none"})

\* one iteration of the loop of lines 81-118
GridFrame ==
    /\ script \in GridScripts /\ pc = "grid_loop" /\ frame_idx < total_frames
    /\ GridSlots([i \in 1..Len(video_paths) |-> GridSlot(i)])
    /\ UNCHANGED <<mainVars, aggVars, moveVars>>
    /\ UNCHANGED <<script, nSubdirs, attempted, listdir, video_files, video_paths,
                   grid_size, srcLen, frameSize, total_frames, tile, crop>>

\* lines 120-127: the loop is over, captures and writer are released
GridRelease ==
    /\ script \in GridScripts /\ pc = "grid_loop" /\ frame_idx >= total_frames
    /\ caps' = [i \in 1..Len(caps) |->
                  IF caps[i].opened THEN [caps[i] EXCEPT !.released = TRUE]
                  ELSE caps[i]]
    /\ out' = [out EXCEPT !.released = TRUE]
    /\ pc' = "done"
    /\ UNCHANGED <<mainVars, aggVars, moveVars>>
    /\ UNCHANGED <<script, exc, nSubdirs, attempted, listdir, video_files, video_paths,
                   grid_size, srcLen, frameSize, total_frames, frame_idx, tile, crop>>

----------------------------------------------------------------------------
(* combine_videos.py main *)

\* names of the subdirectories the globs can match, in string order
DirNames ==
    << "d01", "d02", "d03", "d04", "d05", "d06", "d07", "d08", "d09", "d10",
       "d11", "d12" >>

\* lines 136-137 and 141-142: str(video_path) of the k-th matching directory
CsgoVideo(k) == <<"static", "csgo", "hdf5_dm_july2021_", DirNames[k], "pred_video.mp4">>
AppendixVideo(k) == <<"static", "appendix", DirNames[k], "pred_video.mp4">>

\* the orders Path.glob may give n matches in
GlobOrders(n) ==
    { [i \in 1..n |-> i], [i \in 1..n |-> n + 1 - i], [i \in 1..n |-> (i % n) + 1] }

\* lines 145-146: list.sort() of path strings
ListSort(paths) == SortByPath(paths)

\* s[start:stop]
SeqSlice(s, start, stop) ==
    SubSeq(s, Slice(Len(s), start, stop).lo + 1, Slice(Len(s), start, stop).hi)

\* s[k] with k >= 0: IndexError when the list has no such item
ListItemOrBlank(s, k) == [ok |-> TRUE, v |-> IF k < Len(s) THEN s[k + 1] ELSE <<>>]

ListItem(s, k) ==
    IF k < Len(s) THEN [ok |-> TRUE, v |-> s[k + 1]] ELSE [ok |-> FALSE, v |-> <<>>]

Blank == [ok |-> TRUE, v |-> <<>>]

\* lines 158-167: the entries of rows 2 and 3 in the order they are appended
MiddleRows(csgo) ==
    << ListItem(csgo, 0), Blank, Blank, ListItem(csgo, 1),
       ListItem(csgo, 2), Blank, Blank, ListItem(csgo, 3) >>

\* lines 170-172: appendix_videos[4:], padded with "" to 4 entries
RemainingAppendix(appendix) ==
    SeqSlice(appendix, 4, Len(appendix))
        \o [k \in 1..(4 - Len(SeqSlice(appendix, 4, Len(appendix)))) |-> <<>>]

\* lines 152-173: the list is complete, lines 188-192 call the grid function
CallGrid(appendix, middle) ==
    /\ video_paths' = SeqSlice(appendix, 0, 4)
                          \o [k \in 1..Len(middle) |-> middle[k].v]
                          \o RemainingAppendix(appendix)
    /\ grid_size' = <<4, 4>>
    /\ pc' = "grid_setup"
    /\ UNCHANGED exc

\* csgo_videos[k] raises at entry b of the middle rows: main has no handler
LayoutRaise(appendix, middle, b) ==
    /\ video_paths' = SeqSlice(appendix, 0, 4) \o [k \in 1..(b - 1) |-> middle[k].v]
    /\ exc' = "IndexError"
    /\ pc' = "crashed"
    /\ UNCHANGED grid_size

BuildPaths(appendix, middle, bad) ==
    IF bad # {}
    THEN LayoutRaise(appendix, middle, CHOOSE b \in bad : \A c \in bad : b <= c)
    ELSE CallGrid(appendix, middle)

BuildLayout(appendix, middle) ==
    BuildPaths(appendix, middle, {k \in 1..Len(middle) : ~middle[k].ok})

\* main, lines 131-142: the paths the two globs give
CombineGlob ==
    /\ script = "combine" /\ pc = "combine_main"
    /\ \E nc \in 0..MaxCsgo, na \in 0..MaxAppendix :
          \E oc \in GlobOrders(nc), oa \in GlobOrders(na) :
              /\ csgo_videos' = [i \in 1..nc |-> CsgoVideo(oc[i])]
              /\ appendix_videos' = [i \in 1..na |-> AppendixVideo(oa[i])]
    /\ pc' = "globbed"
    /\ UNCHANGED <<aggVars, moveVars>>
    /\ UNCHANGED <<script, exc, nSubdirs, attempted, listdir, video_files, video_paths,
                   grid_size, srcLen, frameSize, total_frames, frame_idx, caps, out,
                   tile, crop>>

\* main, lines 144-192: sort, keep 4 CS:GO paths, build the path list and call
\* create_video_grid_with_empty_slots with grid_size (4, 4)
CombineLayout ==
    /\ script = "combine" /\ pc = "globbed"
    /\ csgo_videos' = SeqSlice(ListSort(csgo_videos), 0, 4)
    /\ appendix_videos' = ListSort(appendix_videos)
    /\ BuildLayout(ListSort(appendix_videos),
                   MiddleRows(SeqSlice(ListSort(csgo_videos), 0, 4)))
    /\ UNCHANGED <<aggVars, moveVars>>
    /\ UNCHANGED <<script, nSubdirs, attempted, listdir, video_files, srcLen,
                   frameSize, total_frames, frame_idx, caps, out, tile, crop>>

----------------------------------------------------------------------------
(* static/csgo/aggregate_videos.py and static/rt1/aggregate_videos.py *)

AggScripts == {"csgo", "rt1"}

\* names of the subdirectories of the walked directory that can hold videos
WalkNames == {DirNames[k] : k \in 1..MaxWalk}

\* the files such a subdirectory can hold
FileSets == { {}, {"pred_video.mp4"}, {"gt_video.mp4", "pred_video.mp4"} }

\* the orders a set can be listed in
Perms(S) ==
    { f \in [1..Cardinality(S) -> S] : \A i, j \in DOMAIN f : i # j => f[i] # f[j] }

\* os.walk(directory): the directory itself first, then its subdirectories in
\* the order os.scandir lists them; 'combined' exists since line 107
WalkOf(files, order) ==
    << [root |-> <<".">>, files |-> {}] >>
        \o [i \in 1..Len(order) |->
               [root  |-> <<".", order[i]>>,
                files |-> IF order[i] = "combined" THEN {"all_combined.mp4"}
                          ELSE files[order[i]]]]

\* lines 115-125: does the walked directory give a pair
HasPair(entry) ==
    /\ ~InPath("combined", entry.root)
    /\ "pred_video.mp4" \in entry.files
    /\ "gt_video.mp4" \in entry.files

\* lines 126-128: (gt_path, pred_path) of a walked directory
PairOf(entry) == <<entry.root \o <<"gt_video.mp4">>, entry.root \o <<"pred_video.mp4">> >>

\* lines 110-128: the pairs in the order the walk meets them
CollectPairs(w) ==
    [i \in 1..Len(SelectSeq(w, HasPair)) |-> PairOf(SelectSeq(w, HasPair)[i])]

NoLayout == [total_width |-> 0, total_height |-> 0, content_height |-> 0,
             padding_vertical |-> 0, gt |-> <<>>, pred |-> <<>>]

\* process_directory, lines 105-139: walk the directory and collect the pairs
AggFound(w, pairs) ==
    /\ walk' = w
    /\ video_pairs' = pairs
    /\ pc' = IF pairs = <<>> THEN "done" ELSE "combine_all_videos"
    /\ log' = IF pairs = <<>> THEN Append(log, <<"No video pairs found", "">>) ELSE log

AggWalked(w) == AggFound(w, CollectPairs(w))

AggWalk ==
    /\ script \in AggScripts /\ pc = "process_directory"
    /\ \E S \in SUBSET WalkNames :
          \E files \in [S -> FileSets], order \in Perms(S \cup {"combined"}) :
              AggWalked(WalkOf(files, order))
    /\ UNCHANGED <<mainVars, layout, clips>>
    /\ UNCHANGED <<script, exc, nSubdirs, attempted, listdir, video_files, video_paths,
                   grid_size, srcLen, frameSize, total_frames, frame_idx, caps, out,
                   tile, crop>>

agg_spacing == 50
label_width == 250
csgo_target_height == 275
csgo_target_width == 512
csgo_width_trim == 350
rt1_target_width == 400
rt1_width_margin == 50

\* the widths a clip can have after the resize to the target height
ResizedWidths(tw) == {tw - DimDelta, tw, tw + DimDelta}

\* resize_and_crop, lines 28-35: the width of the clip it returns
ClipWidth(resized, tw) == IF resized > tw THEN tw ELSE resized

\* lines 68-76 (csgo), 90-94 (rt1): the x positions of the clips of one row
RECURSIVE RowX(_, _)
RowX(widths, x_pos) ==
    IF widths = <<>> THEN <<>>
    ELSE <<x_pos>> \o RowX(Tail(widths), x_pos + Head(widths) + agg_spacing)

\* the rectangles of the clips of one row placed at height y
RowRects(widths, xs, y, h) ==
    [i \in 1..Len(widths) |-> [x |-> xs[i], y |-> y, w |-> widths[i], h |-> h]]

\* csgo lines 40-47 and 64-87: the canvas and the two rows
CsgoLayout(widths, n) ==
    [total_width |->
         label_width + agg_spacing
             + (csgo_target_width * n + agg_spacing * (n - 1)) - csgo_width_trim,
     total_height |-> csgo_target_height * 2 + agg_spacing * 3,
     content_height |-> csgo_target_height * 2 + agg_spacing * 3,
     padding_vertical |-> 0,
     gt   |-> RowRects(widths, RowX(widths, label_width + agg_spacing),
                       agg_spacing, csgo_target_height),
     pred |-> RowRects(widths, RowX(widths, label_width + agg_spacing),
                       csgo_target_height + agg_spacing * 2, csgo_target_height)]

\* rt1 lines 53-64: the canvas width and the vertical padding, from
\* total_width (width), content_height, twitter_height and twitter_width
Rt1Padding(width, content_height, twitter_height, twitter_width) ==
    IF content_height > twitter_height
    THEN IF twitter_width > width
         THEN [w |-> twitter_width, pad |-> 0]
         ELSE [w |-> width, pad |-> (twitter_height - content_height) \div 2]
    ELSE [w |-> width, pad |-> (twitter_height - content_height) \div 2]

\* rt1 lines 66-101: the canvas and the two rows, given width and padding
Rt1Placed(widths, th, content_height, p) ==
    [total_width |-> p.w,
     total_height |-> content_height + p.pad * 2,
     content_height |-> content_height,
     padding_vertical |-> p.pad,
     gt   |-> RowRects(widths, RowX(widths, label_width), p.pad + agg_spacing, th),
     pred |-> RowRects(widths, RowX(widths, label_width),
                       p.pad + th + agg_spacing * 2, th)]

\* rt1 lines 43-55: twitter_height and twitter_width from total_width (width)
\* and content_height
Rt1Sized(widths, th, width, content_height) ==
    Rt1Placed(widths, th, content_height,
              Rt1Padding(width, content_height,
                         (width * 9) \div 16, (content_height * 16) \div 9))

\* rt1 lines 40-101 for n clips of the widths given and height th
Rt1Layout(widths, n, th) ==
    Rt1Sized(widths, th,
             rt1_target_width * n + agg_spacing * (n - 1) + label_width
                 + rt1_width_margin,
             th * 2 + agg_spacing * 3)

\* combine_all_videos of csgo, lines 13-87: clips loaded, resized, placed
CsgoCompose ==
    /\ script = "csgo" /\ pc = "combine_all_videos"
    /\ \E resized \in ResizedWidths(csgo_target_width) :
          layout' = CsgoLayout([i \in 1..Len(video_pairs) |->
                                   ClipWidth(resized, csgo_target_width)],
                               Len(video_pairs))
    /\ walk' = <<>>
    /\ pc' = "composed"
    /\ UNCHANGED <<mainVars, video_pairs, moveVars>>
    /\ UNCHANGED <<script, exc, nSubdirs, attempted, listdir, video_files, video_paths,
                   grid_size, srcLen, frameSize, total_frames, frame_idx, caps, out,
                   tile, crop>>

\* combine_all_videos of rt1, lines 13-101: the target height is the largest
\* clip height
Rt1Compose ==
    /\ script = "rt1" /\ pc = "combine_all_videos"
    /\ \E th \in 1..MaxHeight, resized \in ResizedWidths(rt1_target_width) :
          layout' = Rt1Layout([i \in 1..Len(video_pairs) |->
                                  ClipWidth(resized, rt1_target_width)],
                              Len(video_pairs), th)
    /\ walk' = <<>>
    /\ pc' = "composed"
    /\ UNCHANGED <<mainVars, video_pairs, moveVars>>
    /\ UNCHANGED <<script, exc, nSubdirs, attempted, listdir, video_files, video_paths,
                   grid_size, srcLen, frameSize, total_frames, frame_idx, caps, out,
                   tile, crop>>

\* csgo lines 89-97 and 133-137 (rt1 103-111 and 147-151): the composite is
\* written, or an exception of moviepy is caught and printed
AggWrite ==
    /\ script \in AggScripts /\ pc = "composed"
    /\ \E ok \in BOOLEAN :
          IF ok
          THEN /\ out' = [opened |-> TRUE, released |-> TRUE,
                          w |-> layout.total_width, h |-> layout.total_height,
                          written |-> <<[w |-> layout.total_width,
                                         h |-> layout.total_height,
                                         tiles |-> layout.gt \o layout.pred]>>]
               /\ UNCHANGED log
          ELSE /\ log' = Append(log, <<"Error processing videos", "">>)
               /\ UNCHANGED out
    /\ pc' = "done"
    /\ UNCHANGED <<mainVars, aggVars, clips>>
    /\ UNCHANGED <<script, exc, nSubdirs, attempted, listdir, video_files, video_paths,
                   grid_size, srcLen, frameSize, total_frames, frame_idx, caps, tile,
                   crop>>

----------------------------------------------------------------------------
(* static/move/1.py *)

\* lines 23-32: the keys of the action clips, in the order of the dict
videos == <<"w", "a", "s", "d", "up", "down", "l", "r">>

video_width == 512
video_height == 275
move_spacing == 20
text_height == 80
padding == 30
condition_width == 512
expected_clips == 8

\* lines 44-45: the size of the canvas
move_total_width ==
    (video_width * 4) + (move_spacing * 3) + (padding * 2) + condition_width
        + move_spacing
move_total_height ==
    (video_height * 2) + (move_spacing * 1) + (padding * 2) + (text_height * 2)

\* line 85: are the clips loaded the ones the grid needs
ClipsCompleteAtLeastOne(n) == n >= 1

ClipsComplete(n) == n = expected_clips

\* lines 113-118: the position of the clip of row, col
ClipPosition(row, col) ==
    [x |-> padding + condition_width + move_spacing + col * (video_width + move_spacing),
     y |-> padding + row * (video_height + text_height + move_spacing)]

\* one iteration of the loop of lines 51-83: the clip of the next key is
\* missing (line 83), fails to load (line 81) or is loaded (lines 55-79)
MoveLoad ==
    /\ script = "move" /\ pc = "load" /\ Len(log) < Len(videos)
    /\ \E status \in {"does not exist", "Error loading", "Successfully loaded"} :
          /\ clips' = IF status = "Successfully loaded"
                      THEN Append(clips, videos[Len(log) + 1]) ELSE clips
          /\ log' = Append(log, <<status, videos[Len(log) + 1]>>)
    /\ UNCHANGED <<mainVars, aggVars>>
    /\ UNCHANGED <<script, pc, exc, nSubdirs, attempted, listdir, video_files,
                   video_paths, grid_size, srcLen, frameSize, total_frames, frame_idx,
                   caps, out, tile, crop>>

\* lines 85-87: not the expected clips, return without output
MoveReturn ==
    /\ script = "move" /\ pc = "load" /\ Len(log) = Len(videos)
    /\ ~ClipsComplete(Len(clips))
    /\ log' = Append(log, <<"Expected 8 clips", "">>)
    /\ pc' = "done"
    /\ UNCHANGED <<mainVars, aggVars, clips>>
    /\ UNCHANGED <<script, exc, nSubdirs, attempted, listdir, video_files, video_paths,
                   grid_size, srcLen, frameSize, total_frames, frame_idx, caps, out,
                   tile, crop>>

\* lines 89-132: the grid is composed and written, or an exception of moviepy
\* is caught and printed
MoveGrid ==
    /\ script = "move" /\ pc = "load" /\ Len(log) = Len(videos)
    /\ ClipsComplete(Len(clips))
    /\ \E ok \in BOOLEAN :
          IF ok
          THEN /\ out' = [opened |-> TRUE, released |-> TRUE,
                          w |-> move_total_width, h |-> move_total_height,
                          written |-> <<[w |-> move_total_width,
                                         h |-> move_total_height,
                                         tiles |-> [k \in 1..Min(Len(clips), 8) |->
                                             [src |-> clips[k],
                                              pos |-> ClipPosition((k - 1) \div 4,
                                                                   (k - 1) % 4)]]]>>]
               /\ UNCHANGED log
          ELSE /\ log' = Append(log, <<"Error creating video grid", "">>)
               /\ UNCHANGED out
    /\ pc' = "done"
    /\ UNCHANGED <<mainVars, aggVars, clips>>
    /\ UNCHANGED <<script, exc, nSubdirs, attempted, listdir, video_files, video_paths,
                   grid_size, srcLen, frameSize, total_frames, frame_idx, caps, tile,
                   crop>>

----------------------------------------------------------------------------
(* The crop functions applied to single frames *)

CropWidths ==
    ((csgo_crop_width - DimDelta)..(csgo_crop_width + DimDelta))
        \cup ((rt1_crop_width - DimDelta)..(rt1_crop_width + DimDelta))
        \cup {1, 100, 2 * csgo_crop_width}

CropHeights ==
    ((csgo_crop_height - DimDelta)..(csgo_crop_height + DimDelta))
        \cup ((rt1_crop_height - DimDelta)..(rt1_crop_height + DimDelta))
        \cup {1, 100, 2 * rt1_crop_height}

\* center_crop of compare/1.py with its default target, on one frame
CropCompare ==
    /\ script = "crop" /\ pc = "frame"
    /\ crop' = center_crop(frameSize[1], frameSize[2], target_width, target_height)
    /\ pc' = "cropped"
    /\ UNCHANGED <<mainVars, aggVars, moveVars>>
    /\ UNCHANGED <<script, exc, nSubdirs, attempted, listdir, video_files, video_paths,
                   grid_size, srcLen, frameSize, total_frames, frame_idx, caps, out,
                   tile>>

\* process_frame of combine_videos.py (center_crop, then resize), on one frame
CropCombine ==
    /\ script = "crop" /\ pc = "frame"
    /\ \E is_csgo \in BOOLEAN :
          crop' = process_frame(frameSize[1], frameSize[2], is_csgo)
    /\ pc' = "cropped"
    /\ UNCHANGED <<mainVars, aggVars, moveVars>>
    /\ UNCHANGED <<script, exc, nSubdirs, attempted, listdir, video_files, video_paths,
                   grid_size, srcLen, frameSize, total_frames, frame_idx, caps, out,
                   tile>>

----------------------------------------------------------------------------

Init ==
    /\ script \in {"compare", "grid", "combine", "csgo", "rt1", "move", "crop"}
    /\ csgo_videos = <<>>
    /\ appendix_videos = <<>>
    /\ walk = <<>>
    /\ video_pairs = <<>>
    /\ layout = NoLayout
    /\ clips = <<>>
    /\ log = <<>>
    /\ exc = "none"
    /\ attempted = 0
    /\ listdir = <<>>
    /\ video_files = <<>>
    /\ srcLen = <<>>
    /\ total_frames = 0
    /\ frame_idx = 0
    /\ caps = <<>>
    /\ out = NoWriter
    /\ tile = <<0, 0>>
    /\ crop = NoCrop
    /\ IF script = "compare"
       THEN /\ pc = "main"
            /\ nSubdirs \in 0..MaxDirs
            /\ video_paths = <<>>
            /\ grid_size = <<0, 0>>
            /\ frameSize = <<0, 0>>
       ELSE IF script = "grid"
       THEN /\ pc = "grid_setup"
            /\ nSubdirs = 0
            /\ video_paths \in PathLists
            /\ grid_size \in GridShapes
            /\ frameSize = <<0, 0>>
       ELSE IF script = "crop"
       THEN /\ pc = "frame"
            /\ nSubdirs = 0
            /\ video_paths = <<>>
            /\ grid_size = <<0, 0>>
            /\ frameSize \in CropWidths \X CropHeights
       ELSE /\ pc = IF script = "combine" THEN "combine_main"
                    ELSE IF script = "move" THEN "load" ELSE "process_directory"
            /\ nSubdirs = 0
            /\ video_paths = <<>>
            /\ grid_size = <<0, 0>>
            /\ frameSize = <<0, 0>>

Next ==
    \/ Main
    \/ ProcessDirectory
    \/ CompareSort
    \/ CompareOpen
    \/ CompareFrame
    \/ CompareLoopEnd
    \/ CompareFinally
    \/ NextSubdir
    \/ GridSetup
    \/ GridFrame
    \/ GridRelease
    \/ CombineGlob
    \/ CombineLayout
    \/ AggWalk
    \/ CsgoCompose
    \/ Rt1Compose
    \/ AggWrite
    \/ MoveLoad
    \/ MoveReturn
    \/ MoveGrid
    \/ CropCompare
    \/ CropCombine

Spec == Init /\ [][Next]_vars

----------------------------------------------------------------------------
(* Properties *)

written == out.written

Max(a, b) == IF a > b THEN a ELSE b

\* the entries of the path list that name a video
NonBlank ==
    IF script \in GridScripts THEN {i \in 1..Len(video_paths) : video_paths[i] # <<>>}
    ELSE 1..Len(srcLen)

\* the source whose frame count the loop runs for
FirstSource == IF script \in GridScripts THEN FirstValid(video_paths) ELSE 1

MaxSourceLen ==
    CHOOSE m \in {srcLen[i] : i \in NonBlank} : \A i \in NonBlank : srcLen[i] <= m

\* the composing function has run its loop to the end and released
RunFinished ==
    \/ script = "compare" /\ pc = "returned" /\ out.opened
    \/ script \in GridScripts /\ pc = "done"

\* the composing function has returned or raised
Exited ==
    \/ script = "compare" /\ pc \in {"returned", "crashed"}
    \/ script \in GridScripts /\ pc \in {"done", "crashed"}

\* C1 as stated: a finished run has written max(L1..Ln) composite frames,
\* the longest non-blank source deciding the length whichever comes first.
C1_FrameCountIsMax ==
    RunFinished => Len(written) = MaxSourceLen

\* C1 (amended): the number of composite frames written never exceeds the
\* frame count of the first source (first of the list sorted by
\* get_video_order in create_comparison_video, first non-empty path in
\* create_video_grid_with_empty_slots), and equals it once the frame loop
\* has run to its end.
C1_FrameCountIsFirst ==
    /\ script \in {"compare"} \cup GridScripts /\ out.opened =>
          Len(written) <= srcLen[FirstSource]
    /\ RunFinished => Len(written) = srcLen[FirstSource]

C1_Witness ==
    /\ RunFinished
    /\ Len(written) >= 2
    /\ Len(written) < MaxSourceLen

\* C2: in create_comparison_video a source with L >= 1 decodable frames shows
\* frame min(i, L-1) in its tile at every output frame index i, and never
\* makes the run fail, however much shorter than the target it is: a failed
\* read (AttributeError on the missing frame) can only come from a source
\* with no decodable frame at all.
C2_FreezeOnLastFrame ==
    script = "compare" /\ out.opened =>
        /\ \A k \in 1..Len(written) : \A s \in 1..Len(srcLen) :
              srcLen[s] >= 1 =>
                  written[k].tiles[2 * s - 1].idx = Min(k - 1, srcLen[s] - 1)
        /\ exc = "AttributeError" => \E s \in 1..Len(srcLen) : srcLen[s] = 0

\* C3: when the composing function has returned or raised, every capture it
\* opened and the writer are released.
C3_ReleasedOnExit ==
    Exited =>
        /\ \A i \in 1..Len(caps) : caps[i].opened => caps[i].released
        /\ out.opened => out.released

\* the number of tile-sized all-zero regions of a composite frame of the grid
RECURSIVE BlankTiles(_)
BlankTiles(tiles) ==
    IF tiles = <<>> THEN 0
    ELSE (IF Head(tiles).kind \in {"blank", "pad"} THEN Head(tiles).w \div tile[1] ELSE 0)
             + BlankTiles(Tail(tiles))

ContentTiles(tiles) == Cardinality({p \in 1..Len(tiles) : tiles[p].kind = "content"})

EmptyEntries == Cardinality({i \in 1..Len(video_paths) : video_paths[i] = <<>>})

\* the tile at row-major position i of the composite frame c comes from
\* entry i of the path list
TileFromEntry(c, i) ==
    IF video_paths[i] = <<>> THEN c.tiles[i].kind = "blank"
    ELSE c.tiles[i].kind = "content" /\ c.tiles[i].src = i

\* the grid positions of a composite frame: the rows built from the list,
\* or the rows of the shape when there are more
GridPositions ==
    Max(grid_size[1], RowCount(Len(video_paths), grid_size[2])) * grid_size[2]

\* C4 as stated: with k empty entries among the n of the list, every
\* composite frame holds exactly k all-zero tiles and n-k content tiles, the
\* tile at row-major position i coming from entry i.
C4_ExactlyKBlank ==
    script = "grid" =>
        \A f \in 1..Len(written) :
            /\ BlankTiles(written[f].tiles) = EmptyEntries
            /\ ContentTiles(written[f].tiles) = Len(video_paths) - EmptyEntries
            /\ \A i \in 1..Len(video_paths) : TileFromEntry(written[f], i)

\* C4 (amended): every composite frame holds exactly n-k content tiles; the
\* tile at row-major position i comes from entry i of the list, all-zero
\* when the entry is empty; every grid position after the end of the list is
\* an all-zero padding tile, so the all-zero tiles are the k empty entries
\* plus the padding (exactly k when the list fills the grid).
C4_BlankAndPadding ==
    script = "grid" =>
        \A f \in 1..Len(written) :
            /\ ContentTiles(written[f].tiles) = Len(video_paths) - EmptyEntries
            /\ \A i \in 1..Len(video_paths) : TileFromEntry(written[f], i)
            /\ \A p \in (Len(video_paths) + 1)..Len(written[f].tiles) :
                  written[f].tiles[p].kind = "pad"
            /\ BlankTiles(written[f].tiles)
                  = EmptyEntries + (GridPositions - Len(video_paths))

C4_Witness ==
    /\ script = "grid"
    /\ Len(written) >= 2
    /\ EmptyEntries >= 1
    /\ Len(video_paths) - EmptyEntries >= 2
    /\ Len(video_paths) < grid_size[1] * grid_size[2]
    /\ video_paths[1] = <<>>

\* C5: every composite frame create_video_grid_with_empty_slots writes is
\* cols*tileWidth by rows*tileHeight pixels, the size the writer was opened
\* with, for any path list and any shape.
C5_GridFrameSize ==
    script = "grid" =>
        \A f \in 1..Len(written) :
            /\ written[f].w = grid_size[2] * tile[1]
            /\ written[f].h = grid_size[1] * tile[2]
            /\ written[f].w = out.w
            /\ written[f].h = out.h

\* C6: every composite frame create_comparison_video writes for n sources is
\* n*512 + (n-1)*30 wide and 275 + 2*50 high, the size the writer was opened
\* with: one labelled tile per source and one spacing strip between adjacent
\* tiles.
C6_ComparisonFrameSize ==
    script = "compare" =>
        \A f \in 1..Len(written) :
            LET n == Len(video_files)
            IN  /\ written[f].w = n * 512 + (n - 1) * 30
                /\ written[f].h = 275 + 2 * 50
                /\ written[f].w = out.w
                /\ written[f].h = out.h
                /\ Len(written[f].tiles) = 2 * n - 1
                /\ \A p \in 1..(2 * n - 1) :
                      IF p % 2 = 1
                      THEN /\ written[f].tiles[p].kind = "content"
                           /\ written[f].tiles[p].src = (p + 1) \div 2
                      ELSE written[f].tiles[p].kind = "spacing"

C6_Witness ==
    /\ script = "compare"
    /\ Len(video_files) >= 3
    /\ Len(written) >= 2

TaggedFour ==
    { <<"a", "_gt", ".mp4">>, <<"a", "_ours", ".mp4">>, <<"a", "_fast", ".mp4">>,
      <<"a", "_HQ", ".MP4">> }

\* C7: when the videos of a directory are the files tagged _gt, _ours, _fast
\* and _hq, the list create_comparison_video works on after its sort is
\* [gt, ours, fast, hq], whatever order the directory listed them in.
C7_TagOrder ==
    /\ script = "compare"
    /\ pc \in {"sorted", "loop", "finally", "returned", "crashed"}
    /\ {Basename(video_files[i]) : i \in 1..Len(video_files)} = TaggedFour
    => [i \in 1..Len(video_files) |-> Basename(video_files[i])]
           = << <<"a", "_gt", ".mp4">>, <<"a", "_ours", ".mp4">>,
                <<"a", "_fast", ".mp4">>, <<"a", "_HQ", ".MP4">> >>

C7_Witness ==
    /\ script = "compare" /\ pc = "sorted"
    /\ listdir = << <<"a", "_HQ", ".MP4">>, <<"a", "_fast", ".mp4">>,
                    <<"a", "_ours", ".mp4">>, <<"a", "_gt", ".mp4">> >>
    /\ Basename(video_files[1]) = <<"a", "_gt", ".mp4">>
    /\ Basename(video_files[4]) = <<"a", "_HQ", ".MP4">>

\* C8: for a source frame at least as wide and as high as the crop target,
\* center crop followed by resize gives a buffer of exactly the requested
\* size (512x275 in compare/1.py; in combine_videos.py the 426x320 that
\* process_frame resizes to), and the crop rectangle is non-empty, inside the
\* source, and centred (its two margins differ by at most one pixel).
C8_CropThenResize ==
    pc = "cropped" /\ crop.w >= crop.tw /\ crop.h >= crop.th =>
        /\ crop.ok
        /\ crop.fn = "compare" => crop.outW = 512 /\ crop.outH = 275
        /\ crop.fn = "combine" =>
              /\ crop.outW = 426 /\ crop.outH = 320
              /\ crop.x1 - crop.x0 = crop.tw
              /\ crop.y1 - crop.y0 = crop.th
        /\ 0 <= crop.x0 /\ crop.x0 < crop.x1 /\ crop.x1 <= crop.w
        /\ 0 <= crop.y0 /\ crop.y0 < crop.y1 /\ crop.y1 <= crop.h
        /\ (crop.w - crop.x1) - crop.x0 \in {0, 1}
        /\ (crop.h - crop.y1) - crop.y0 \in {0, 1}

C8_Witness ==
    /\ pc = "cropped" /\ crop.fn = "compare"
    /\ crop.w > crop.tw /\ crop.h >= crop.th
    /\ crop.x0 > 1
    /\ crop.ok

\* C9: when the crop target exceeds the source in a dimension, center_crop
\* of combine_videos.py does not raise and the region it returns spans the
\* whole source in that dimension, from 0 to the source size.
C9_ClampedToSource ==
    pc = "cropped" /\ crop.fn = "combine" =>
        /\ crop.ok
        /\ crop.tw > crop.w => crop.x0 = 0 /\ crop.x1 = crop.w
        /\ crop.th > crop.h => crop.y0 = 0 /\ crop.y1 = crop.h

\* C10: in compare/1.py an exception raised while one subdirectory is
\* processed does not end the script, and when the script ends every
\* subdirectory has been processed.
C10_OneBadDirectoryDoesNotStopOthers ==
    script = "compare" =>
        /\ pc # "crashed"
        /\ pc = "done" => attempted = nSubdirs

\* C11: when main of combine_videos.py finds fewer than 4 CS:GO videos, or
\* create_video_grid_with_empty_slots gets a list with no non-empty entry, the
\* run fails on the missing item (IndexError of csgo_videos[k], StopIteration
\* of next()), and the writer is never opened and no frame is ever written.
C11_NotFoundFails ==
    /\ script = "combine" /\ Len(csgo_videos) < 4 =>
          /\ ~out.opened /\ written = <<>>
          /\ pc \notin {"combine_main", "globbed"} =>
                pc = "crashed" /\ exc = "IndexError"
    /\ script = "grid" /\ NonBlank = {} =>
          /\ ~out.opened /\ written = <<>>
          /\ pc # "grid_setup" => pc = "crashed" /\ exc = "StopIteration"

C11_Witness ==
    /\ script = "combine" /\ pc = "crashed" /\ exc = "IndexError"
    /\ Len(csgo_videos) = 3
    /\ Len(appendix_videos) >= 4
    /\ Len(video_paths) = 11
    /\ ~out.opened

\* the listings of the same entries as the sequence s, in every order
Reorderings(s) ==
    { [i \in 1..Len(s) |-> s[p[i]]] : p \in Perms(1..Len(s)) }

\* the walks of the same directories as w: the top directory stays first
Rewalks(w) ==
    { <<w[1]>> \o r : r \in Reorderings(Tail(w)) }

IsSorted(paths) ==
    \A i \in 1..(Len(paths) - 1) : StrLess(paths[i], paths[i + 1])

\* C12: the ordered list of sources discovery produces is the same for every
\* order in which the directory is listed: get_video_files and the sort of
\* create_comparison_video in compare/1.py, the sorted glob results of main
\* in combine_videos.py, and the pairs process_directory of the csgo and rt1
\* scripts collects while it walks the directory.
C12_OrderIndependent ==
    /\ script = "compare" /\ pc = "create_comparison_video" =>
          \A l \in Reorderings(listdir) : get_video_files(l) = video_files
    /\ script = "compare" /\ pc = "sorted" =>
          \A l \in Reorderings(listdir) :
              SortByOrder(get_video_files(l)) = video_files
    /\ script = "combine" /\ pc \notin {"combine_main", "globbed"} =>
          IsSorted(csgo_videos) /\ IsSorted(appendix_videos)
    /\ script \in AggScripts /\ walk # <<>> =>
          \A w \in Rewalks(walk) : CollectPairs(w) = video_pairs

\* the phase of a position of the script: discovering 1, opening sources 2,
\* writing frames 3, finalizing 4, done 5
PhaseRank ==
    CASE pc \in {"main", "process_directory", "create_comparison_video", "sorted",
                 "combine_main", "globbed"} -> 1
      [] pc = "grid_setup" -> 2
      [] pc \in {"loop", "grid_loop"} -> 3
      [] pc = "finally" -> 4
      [] OTHER -> 5

PhaseRankNext ==
    CASE pc' \in {"main", "process_directory", "create_comparison_video", "sorted",
                  "combine_main", "globbed"} -> 1
      [] pc' = "grid_setup" -> 2
      [] pc' \in {"loop", "grid_loop"} -> 3
      [] pc' = "finally" -> 4
      [] OTHER -> 5

\* one step of a composing script, as C13 allows it
SequentialStep ==
    script \in {"compare", "grid", "combine"} /\ pc # "returned" =>
        /\ PhaseRankNext >= PhaseRank
        /\ out.opened => out'.opened /\ Len(written) = frame_idx
        /\ out.released => written' = written
        /\ written' # written =>
              /\ out.opened /\ ~out.released
              /\ out'.opened /\ ~out'.released
              /\ pc = pc' /\ PhaseRank = 3
              /\ Len(written) = frame_idx
              /\ frame_idx' = frame_idx + 1
              /\ Len(written') = Len(written) + 1
              /\ SubSeq(written', 1, Len(written)) = written

\* C13: in create_comparison_video and create_video_grid_with_empty_slots the
\* phases of one call follow the order discovering, opening, writing,
\* finalizing, done (the next subdirectory of compare/1.py starts a new call);
\* a step that writes appends exactly one frame, the frame of the current
\* index, to the frames already written, which stay as they are, while the
\* writer is opened and not released; the index then goes up by one.
C13_SequentialWrites == [][SequentialStep]_vars

C13_Witness ==
    /\ script = "compare" /\ pc = "returned"
    /\ out.opened /\ out.released
    /\ Len(written) = 3
    /\ frame_idx = 3

\* C14: in create_video_grid_with_empty_slots a non-blank source with L >= 1
\* frames shows source frame i mod L in its tile at every output frame index
\* i, and a read in the loop leaves a tile without a frame (AttributeError on
\* the missing frame) only when a source has no decodable frame at all.
C14_LoopsFromStart ==
    script \in GridScripts =>
        /\ \A f \in 1..Len(written) : \A i \in NonBlank :
              srcLen[i] >= 1 =>
                  /\ written[f].tiles[i].kind = "content"
                  /\ written[f].tiles[i].idx = (f - 1) % srcLen[i]
        /\ out.opened /\ exc = "AttributeError" =>
              \E i \in NonBlank : srcLen[i] = 0

C14_Witness ==
    /\ script = "grid" /\ pc = "done"
    /\ Len(written) = 3
    /\ \E i \in NonBlank :
          /\ srcLen[i] = 2
          /\ written[2].tiles[i].idx = 1
          /\ written[3].tiles[i].idx = 0

\* C15: when at least 4 CS:GO videos were found, the path list main of
\* combine_videos.py hands to the grid has exactly 16 entries whatever the
\* number of appendix videos: 4 appendix videos in row 1, CS:GO videos at
\* (1,0), (1,3), (2,0), (2,3) with blanks between them, and in row 4 the
\* remaining appendix videos padded with blanks to 4.
C15_SixteenEntries ==
    /\ script = "combine"
    /\ pc \in {"grid_setup", "grid_loop", "done", "crashed"}
    /\ Len(csgo_videos) = 4
    => /\ Len(video_paths) = 16
       /\ Len(appendix_videos) >= 4
       /\ \A i \in 1..4 : video_paths[i] = appendix_videos[i]
       /\ video_paths[5] = csgo_videos[1] /\ video_paths[8] = csgo_videos[2]
       /\ video_paths[9] = csgo_videos[3] /\ video_paths[12] = csgo_videos[4]
       /\ \A i \in {6, 7, 10, 11} : video_paths[i] = <<>>
       /\ \A i \in 13..16 :
             video_paths[i] = IF i - 8 <= Len(appendix_videos)
                              THEN appendix_videos[i - 8] ELSE <<>>

\* the keys whose message in the log is msg
Logged(msg) == {k \in 1..Min(Len(log), Len(videos)) : log[k][1] = msg}

\* C16: create_video_grid of move/1.py goes through all 8 keys whatever
\* happens to a clip (a missing or failing clip is printed and skipped), the
\* clips loaded are the ones reported loaded, and an output is written only
\* when all 8 were loaded: with any other count the function returns
\* without output.
C16_WrittenOnlyWithAllClips ==
    script = "move" =>
        /\ \A k \in 1..Min(Len(log), Len(videos)) : log[k][2] = videos[k]
        /\ Len(clips) = Cardinality(Logged("Successfully loaded"))
        /\ \A j \in 1..Len(clips) :
              \E k \in Logged("Successfully loaded") : videos[k] = clips[j]
        /\ pc = "done" => Len(log) = Len(videos) + 1 \/ out.opened
        /\ pc = "done" => Len(log) >= Len(videos)
        /\ out.opened => clips = videos
        /\ Len(clips) # 8 => ~out.opened /\ written = <<>>

C16_Witness ==
    /\ script = "move" /\ pc = "done"
    /\ log[1][1] = "Error loading"
    /\ log[2][1] = "does not exist"
    /\ Len(clips) = 6
    /\ clips[6] = "r"
    /\ ~out.opened

\* the rectangles of the clips placed on the canvas
Placed == {layout.gt[i] : i \in 1..Len(layout.gt)}
             \cup {layout.pred[i] : i \in 1..Len(layout.pred)}

\* C17: in combine_all_videos of rt1/aggregate_videos.py, for every number of
\* pairs n >= 1 and every target height >= 1, padding_vertical is not
\* negative, so that total_height >= content_height and both rows of clips
\* lie vertically inside the canvas.
C17_PaddingNonNegative ==
    script = "rt1" /\ Len(layout.gt) >= 1 =>
        /\ layout.padding_vertical >= 0
        /\ layout.total_height >= layout.content_height
        /\ \A r \in Placed : 0 <= r.y /\ r.y + r.h <= layout.total_height

\* C18: in combine_all_videos of csgo/aggregate_videos.py, for every number
\* of pairs n >= 1 with clips cropped to width 512, the rectangle of every
\* clip placed lies inside the background canvas: no right edge is past
\* total_width and no bottom edge past total_height.
C18_TilesInsideCanvas ==
    /\ script = "csgo" /\ Len(layout.gt) >= 1
    /\ \A r \in Placed : r.w = 512
    => \A r \in Placed :
          /\ 0 <= r.x /\ r.x + r.w <= layout.total_width
          /\ 0 <= r.y /\ r.y + r.h <= layout.total_height

====
